---- MODULE Spec2Model ----
(***************************************************************************)
(* Model of the ink! ERC-20 contract of src/lib.rs: the storage struct     *)
(* Erc20 (total_supply, balances, allowance), the constructor new, the     *)
(* queries total_supply / balance_of / allowance and the messages transer, *)
(* transer_from, burn and issue, with the Transfer events they emit.       *)
(*                                                                         *)
(* Balance is an unsigned integer of fixed width (u128 in ink!); the model *)
(* keeps it bounded, scaled down to 0..BalanceMax, so that the unchecked   *)
(* additions of lines 87 and 113 can overflow.  What an overflowing `+`    *)
(* does depends on the build: with overflow checks it panics (the call is  *)
(* aborted where it stands), without them it wraps modulo BalanceMax + 1.  *)
(***************************************************************************)
EXTENDS Integers, Sequences, FiniteSets, TLC

\* ---- bounds of the model -------------------------------------------------
\* The largest Balance: stands for u128::MAX.
BalanceMax == 2

\* ---- types ---------------------------------------------------------------
\* Three accounts: AccountId::from([0x1; 32]), [0x2; 32] and [0x3; 32].
AccountId == {1, 2, 3}
BalanceModulus == BalanceMax + 1
Balance == 0..BalanceMax

VARIABLES total_supply,     \* Erc20.total_supply
          balances,         \* Erc20.balances : AccountId -> Balance, partial
          allowance,        \* Erc20.allowance : (AccountId, AccountId) -> Balance, partial
          events,           \* the Transfer events emitted by the last call, in order
          overflow_checks,  \* whether the build panics on integer overflow
          last              \* the last call: operation, caller, account argument
                            \* (the caller itself for new and burn), value, result;
                            \* for a query: operation, arguments, returned Balance

vars == <<total_supply, balances, allowance, events, overflow_checks, last>>

\* ---- StorageHashMap ------------------------------------------------------
EmptyMap == << >>

\* StorageHashMap::insert: sets the value of key, adding the key if absent.
insert(map, key, value) ==
    [k \in (DOMAIN map) \cup {key} |-> IF k = key THEN value ELSE map[k]]

\* *map.get(&key).unwrap_or(&0)
get_or_zero(map, key) == IF key \in DOMAIN map THEN map[key] ELSE 0

\* ---- Balance arithmetic --------------------------------------------------
\* a + b does not fit the Balance width
add_overflows(a, b) == a + b > BalanceMax

\* the value of a + b when the build does not check overflow
wrapping_add(a, b) == (a + b) % BalanceModulus

\* ---- the contract --------------------------------------------------------
\* &self : the storage struct as a record
self == [total_supply |-> total_supply, balances |-> balances, allowance |-> allowance]

\* new as it would be if the constructor forgot to credit its caller
new_uncredited(caller, supply) ==
    [total_supply |-> supply, balances |-> EmptyMap, allowance |-> EmptyMap]

\* pub fn new(total_supply) -> Self, called by caller
new(caller, supply) ==
    [total_supply |-> supply,
     balances |-> insert(EmptyMap, caller, supply),
     allowance |-> EmptyMap]

\* pub fn balance_of(&self, owner), on an explicit storage struct
balance_in(s, owner) == get_or_zero(s.balances, owner)

\* pub fn balance_of(&self, owner) on the current storage
balance_of(owner) == balance_in(self, owner)

\* pub fn allowance(&self, owner, spender), on an explicit storage struct
allowance_in(s, owner, spender) == get_or_zero(s.allowance, <<owner, spender>>)

\* pub fn allowance(&self, owner, spender) on the current storage
allowance_of(owner, spender) == get_or_zero(allowance, <<owner, spender>>)

\* Transfer { from, to, value }
Transfer(from, to, value) == [from |-> from, to |-> to, value |-> value]

\* transfer_helper with the event of line 89 built as Transfer { from: to, to: from, value }
transfer_helper_swapped_event(s, from, to, value) ==
    LET from_balance == get_or_zero(s.balances, from) IN
    IF from_balance < value
    THEN [self |-> s, events |-> << >>, result |-> "InsufficientBallance"]
    ELSE LET debited == [s EXCEPT !.balances = insert(s.balances, from, from_balance - value)]
             to_balance == get_or_zero(debited.balances, to)
         IN  IF add_overflows(to_balance, value) /\ overflow_checks
             THEN [self |-> debited, events |-> << >>, result |-> "Panic"]
             ELSE [self |-> [debited EXCEPT !.balances =
                                insert(debited.balances, to, wrapping_add(to_balance, value))],
                   events |-> << Transfer(to, from, value) >>,
                   result |-> "Ok"]

\* transfer_helper with the receiver's balance read before the debit of line 85
\* is written
transfer_helper_stale_read(s, from, to, value) ==
    LET from_balance == get_or_zero(s.balances, from)
        to_balance == get_or_zero(s.balances, to)
    IN  IF from_balance < value
        THEN [self |-> s, events |-> << >>, result |-> "InsufficientBallance"]
        ELSE LET debited == [s EXCEPT !.balances = insert(s.balances, from, from_balance - value)]
             IN  IF add_overflows(to_balance, value) /\ overflow_checks
                 THEN [self |-> debited, events |-> << >>, result |-> "Panic"]
                 ELSE [self |-> [debited EXCEPT !.balances =
                                    insert(debited.balances, to, wrapping_add(to_balance, value))],
                       events |-> << Transfer(from, to, value) >>,
                       result |-> "Ok"]

\* transfer_helper without the debit of line 85: the receiver is credited and
\* the sender keeps its balance
transfer_helper_no_debit(s, from, to, value) ==
    LET from_balance == get_or_zero(s.balances, from) IN
    IF from_balance < value
    THEN [self |-> s, events |-> << >>, result |-> "InsufficientBallance"]
    ELSE LET to_balance == get_or_zero(s.balances, to)
         IN  IF add_overflows(to_balance, value) /\ overflow_checks
             THEN [self |-> s, events |-> << >>, result |-> "Panic"]
             ELSE [self |-> [s EXCEPT !.balances =
                                insert(s.balances, to, wrapping_add(to_balance, value))],
                   events |-> << Transfer(from, to, value) >>,
                   result |-> "Ok"]

\* fn transfer_helper(&mut self, from, to, value) -> Result<()>
\* Returns the storage as the call leaves it, the events it emitted and
\* its result ("Panic": the overflow check of line 87 aborted the call).
transfer_helper(s, from, to, value) ==
    LET from_balance == balance_in(s, from) IN
    IF from_balance < value
    THEN [self |-> s, events |-> << >>, result |-> "InsufficientBallance"]
    ELSE LET debited == [s EXCEPT !.balances = insert(s.balances, from, from_balance - value)]
             to_balance == balance_in(debited, to)
         IN  IF add_overflows(to_balance, value) /\ overflow_checks
             THEN [self |-> debited, events |-> << >>, result |-> "Panic"]
             ELSE [self |-> [debited EXCEPT !.balances =
                                insert(debited.balances, to, wrapping_add(to_balance, value))],
                   events |-> << Transfer(from, to, value) >>,
                   result |-> "Ok"]

\* pub fn transer(&mut self, to, value) -> Result<()>, called by who
transer(s, who, to, value) == transfer_helper(s, who, to, value)

\* transer_from that records what it moved as allowance(from, who)
transer_from_records_allowance(s, who, from, value) ==
    LET r == transfer_helper(s, from, who, value) IN
    IF r.result = "Ok"
    THEN [r EXCEPT !.self.allowance = insert(s.allowance, <<from, who>>, value)]
    ELSE r

\* pub fn transer_from(&mut self, from, value) -> Result<()>, called by who
transer_from(s, who, from, value) == transfer_helper(s, from, who, value)

\* burn without the clamp of lines 103-104: a burn above the balance does nothing
burn_unclamped(s, who, value) ==
    LET balance == get_or_zero(s.balances, who) IN
    IF balance < value
    THEN [self |-> s, events |-> << >>, result |-> "Unit"]
    ELSE [self |-> [s EXCEPT !.balances = insert(s.balances, who, balance - value)],
          events |-> << >>, result |-> "Unit"]

\* burn that also takes what it burnt out of total_supply
burn_reduces_supply(s, who, value) ==
    LET balance == get_or_zero(s.balances, who)
        burnt == IF balance < value THEN balance ELSE value
    IN  [self |-> [s EXCEPT !.balances = insert(s.balances, who, balance - burnt),
                            !.total_supply = IF s.total_supply < burnt THEN 0
                                             ELSE s.total_supply - burnt],
         events |-> << >>, result |-> "Unit"]

\* burn without the comparison of line 103: always stores balance - value
burn_unchecked_sub(s, who, value) ==
    LET balance == get_or_zero(s.balances, who) IN
    [self |-> [s EXCEPT !.balances = insert(s.balances, who, balance - value)],
     events |-> << >>, result |-> "Unit"]

\* pub fn burn(&mut self, value), called by who
burn(s, who, value) ==
    LET balance == balance_in(s, who) IN
    IF balance < value
    THEN [self |-> [s EXCEPT !.balances = insert(s.balances, who, 0)],
          events |-> << >>, result |-> "Unit"]
    ELSE [self |-> [s EXCEPT !.balances = insert(s.balances, who, balance - value)],
          events |-> << >>, result |-> "Unit"]

\* issue that announces the credit with a Transfer event
issue_emits(s, to, value) ==
    LET current_balance == get_or_zero(s.balances, to) IN
    IF add_overflows(current_balance, value) /\ overflow_checks
    THEN [self |-> s, events |-> << >>, result |-> "Panic"]
    ELSE [self |-> [s EXCEPT !.balances =
                       insert(s.balances, to, wrapping_add(current_balance, value))],
          events |-> << Transfer(to, to, value) >>, result |-> "Ok"]

\* pub fn issue(&mut self, to, value) -> Result<()>
issue(s, to, value) ==
    LET current_balance == balance_in(s, to) IN
    IF add_overflows(current_balance, value) /\ overflow_checks
    THEN [self |-> s, events |-> << >>, result |-> "Panic"]
    ELSE [self |-> [s EXCEPT !.balances =
                       insert(s.balances, to, wrapping_add(current_balance, value))],
          events |-> << >>, result |-> "Ok"]

\* ---- the queries as messages ----------------------------------------------
\* A query takes &self: it returns a Balance and hands the storage back as it
\* found it.

\* pub fn total_supply(&self) -> Balance
query_total_supply(s) ==
    [self |-> s, events |-> << >>, result |-> s.total_supply]

\* balance_of as it would be with a lookup that adds the missing key
\* (an entry-or-insert-default read)
query_balance_of_inserting(s, owner) ==
    [self |-> [s EXCEPT !.balances = insert(s.balances, owner, get_or_zero(s.balances, owner))],
     events |-> << >>, result |-> get_or_zero(s.balances, owner)]

\* pub fn balance_of(&self, owner) -> Balance
query_balance_of(s, owner) ==
    [self |-> s, events |-> << >>, result |-> balance_in(s, owner)]

\* pub fn allowance(&self, owner, spender) -> Balance
query_allowance(s, owner, spender) ==
    [self |-> s, events |-> << >>, result |-> allowance_in(s, owner, spender)]

\* ---- the state machine ---------------------------------------------------
Call(op, caller, account, value, result) ==
    [op |-> op, caller |-> caller, account |-> account, value |-> value, result |-> result]

\* The storage after a call that returned r, and the events the call handed
\* to the host.
Commit(r) ==
    /\ total_supply' = r.self.total_supply
    /\ balances' = r.self.balances
    /\ allowance' = r.self.allowance
    /\ events' = r.events

\* A message can be dispatched: the contract has not been aborted by a panic.
CanCall == last.result # "Panic"

\* The contract right after its construction by new(s) (default() is new(0)).
Init ==
    \E caller \in AccountId, supply \in Balance :
        /\ total_supply = new(caller, supply).total_supply
        /\ balances = new(caller, supply).balances
        /\ allowance = new(caller, supply).allowance
        /\ events = << >>
        /\ overflow_checks \in BOOLEAN
        /\ last = Call("new", caller, caller, supply, "Ok")

Transer(who, to, value) ==
    /\ CanCall
    /\ LET r == transer(self, who, to, value) IN
          /\ Commit(r)
          /\ last' = Call("transer", who, to, value, r.result)
    /\ UNCHANGED overflow_checks

TranserFrom(who, from, value) ==
    /\ CanCall
    /\ LET r == transer_from(self, who, from, value) IN
          /\ Commit(r)
          /\ last' = Call("transer_from", who, from, value, r.result)
    /\ UNCHANGED overflow_checks

Burn(who, value) ==
    /\ CanCall
    /\ LET r == burn(self, who, value) IN
          /\ Commit(r)
          /\ last' = Call("burn", who, who, value, r.result)
    /\ UNCHANGED overflow_checks

Issue(who, to, value) ==
    /\ CanCall
    /\ LET r == issue(self, to, value) IN
          /\ Commit(r)
          /\ last' = Call("issue", who, to, value, r.result)
    /\ UNCHANGED overflow_checks

\* The label of a query: its arguments and the Balance it returned.
Answer(op, args, returned) ==
    [op |-> op, args |-> args, returned |-> returned, result |-> "Value"]

TotalSupply ==
    /\ CanCall
    /\ LET r == query_total_supply(self) IN
          /\ Commit(r)
          /\ last' = Answer("total_supply", << >>, r.result)
    /\ UNCHANGED overflow_checks

BalanceOf(owner) ==
    /\ CanCall
    /\ LET r == query_balance_of(self, owner) IN
          /\ Commit(r)
          /\ last' = Answer("balance_of", <<owner>>, r.result)
    /\ UNCHANGED overflow_checks

Allowance(owner, spender) ==
    /\ CanCall
    /\ LET r == query_allowance(self, owner, spender) IN
          /\ Commit(r)
          /\ last' = Answer("allowance", <<owner, spender>>, r.result)
    /\ UNCHANGED overflow_checks

Next ==
    \/ TotalSupply
    \/ \E owner \in AccountId : BalanceOf(owner)
    \/ \E owner \in AccountId, spender \in AccountId : Allowance(owner, spender)
    \/ \E who \in AccountId, to \in AccountId, value \in Balance : Transer(who, to, value)
    \/ \E who \in AccountId, from \in AccountId, value \in Balance : TranserFrom(who, from, value)
    \/ \E who \in AccountId, value \in Balance : Burn(who, value)
    \/ \E who \in AccountId, to \in AccountId, value \in Balance : Issue(who, to, value)

Spec == Init /\ [][Next]_vars

\* The executions in which issue is never called: new(s), then any sequence
\* of transer, transer_from and burn.
NextNoIssue ==
    \/ \E who \in AccountId, to \in AccountId, value \in Balance : Transer(who, to, value)
    \/ \E who \in AccountId, from \in AccountId, value \in Balance : TranserFrom(who, from, value)
    \/ \E who \in AccountId, value \in Balance : Burn(who, value)

SpecNoIssue == Init /\ [][NextNoIssue]_vars

\* ---- helpers of the properties -------------------------------------------
RECURSIVE SumOver(_, _)
SumOver(f, S) ==
    IF S = {} THEN 0
    ELSE LET a == CHOOSE x \in S : TRUE IN get_or_zero(f, a) + SumOver(f, S \ {a})

\* the sum of balance_of(a) over all accounts
SumBalances == SumOver(balances, AccountId)

\* Every balance_of(a) with a outside S is the same before and after the step.
BalancesUnchangedExcept(S) ==
    \A a \in AccountId \ S : balance_in(self', a) = balance_of(a)

\* Every allowance(o, sp) is the same before and after the step.
AllowancesUnchanged ==
    \A o \in AccountId, sp \in AccountId : allowance_in(self', o, sp) = allowance_of(o, sp)

TypeOK ==
    /\ total_supply \in Balance
    /\ DOMAIN balances \subseteq AccountId
    /\ \A a \in DOMAIN balances : balances[a] \in Balance
    /\ DOMAIN allowance \subseteq AccountId \X AccountId
    /\ events \in Seq([from : AccountId, to : AccountId, value : Balance])
    /\ Len(events) <= 1
    /\ overflow_checks \in BOOLEAN
    /\ last.op \in {"new", "transer", "transer_from", "burn", "issue",
                    "total_supply", "balance_of", "allowance"}
    /\ last.result \in {"Ok", "Unit", "InsufficientBallance", "Panic", "Value"}
    /\ last.result = "Value" => last.returned \in Balance

\* ---- the claims ----------------------------------------------------------

\* C1: in every reachable state, transer(to, v) invoked by c with to # c and
\* v <= balance_of(c) returns Ok, leaves balance_of(c) lower by exactly v and
\* balance_of(to) higher by exactly v, and changes no third account's balance.
C1_TransferMovesValue ==
    [][ LET c == last'.caller
            to == last'.account
            v == last'.value
        IN  (last'.op = "transer" /\ to # c /\ v <= balance_of(c))
            => /\ last'.result = "Ok"
               /\ balance_in(self', c) = balance_of(c) - v
               /\ balance_in(self', to) = balance_of(to) + v
               /\ BalancesUnchangedExcept({c, to}) ]_vars

\* C2: transer and transer_from return Err(InsufficientBallance) exactly when
\* the debited account's balance is strictly below the value; a call whose
\* value equals the balance succeeds; and a call that returns the error leaves
\* every balance, every allowance and total_supply as they were.
C2_InsufficientIffBelow ==
    [][ LET debited == IF last'.op = "transer" THEN last'.caller ELSE last'.account
            v == last'.value
        IN  last'.op \in {"transer", "transer_from"}
            => /\ (last'.result = "InsufficientBallance") <=> (balance_of(debited) < v)
               /\ (balance_of(debited) = v) => (last'.result = "Ok")
               /\ (last'.result = "InsufficientBallance")
                  => /\ BalancesUnchangedExcept({})
                     /\ AllowancesUnchanged
                     /\ balances' = balances
                     /\ allowance' = allowance
                     /\ total_supply' = total_supply ]_vars

\* C3: transer_from(f, v) invoked by c has the result and the resulting
\* balances of transer(c, v) invoked by f, succeeds whenever balance_of(f) >= v
\* whoever c is and whatever allowance(f, c) is, and leaves the allowances alone.
C3_TransferFromIsTransfer ==
    \A c \in AccountId, f \in AccountId, v \in Balance :
        LET r == transer_from(self, c, f, v) IN
        /\ r.result = transer(self, f, c, v).result
        /\ r.self.balances = transer(self, f, c, v).self.balances
        /\ (balance_of(f) >= v) => (r.result = "Ok")
        /\ r.self.allowance = allowance

\* C4: burn(v) invoked by c never fails and changes only c's balance, which
\* becomes 0 if v > balance_of(c) and balance_of(c) - v otherwise.
C4_BurnClamps ==
    [][ LET c == last'.caller
            v == last'.value
        IN  last'.op = "burn"
            => /\ last'.result = "Unit"
               /\ balance_in(self', c) = (IF v > balance_of(c) THEN 0 ELSE balance_of(c) - v)
               /\ BalancesUnchangedExcept({c}) ]_vars

\* C4 witness: an account that holds nothing after burning more than nothing,
\* while another account still holds its tokens.
C4_Witness ==
    /\ last.op = "burn"
    /\ last.value > 0
    /\ balance_of(last.caller) = 0
    /\ \E a \in AccountId \ {last.caller} : balance_of(a) > 0

\* C5: issue(to, v) always succeeds; afterwards balance_of(to) is its previous
\* value plus exactly v and no other balance has changed.
C5_IssueCredits ==
    [][ LET to == last'.account
            v == last'.value
        IN  last'.op = "issue"
            => /\ last'.result = "Ok"
               /\ balance_in(self', to) = balance_of(to) + v
               /\ BalancesUnchangedExcept({to}) ]_vars

\* C6: right after new(s) invoked by c, total_supply() = s, balance_of(c) = s,
\* balance_of(a) = 0 for every other account a and every allowance is 0.
C6_AfterNew ==
    last.op = "new"
    => /\ total_supply = last.value
       /\ balance_of(last.caller) = last.value
       /\ \A a \in AccountId \ {last.caller} : balance_of(a) = 0
       /\ \A o \in AccountId, sp \in AccountId : allowance_of(o, sp) = 0

\* C6 witness: a contract just constructed with the largest supply.
C6_Witness ==
    /\ last.op = "new"
    /\ last.value = BalanceMax
    /\ balance_of(last.caller) = BalanceMax

\* C7: no message changes total_supply: burn, issue, transer and transer_from
\* all leave it at the value new gave it.
C7_TotalSupplyFrozen == [][ total_supply' = total_supply ]_vars

\* C7 witness: after a burn or an issue the balances no longer add up to the
\* total supply, which stayed where it was.
C7_Witness ==
    /\ last.op \in {"burn", "issue"}
    /\ last.result # "Panic"
    /\ last.value > 0
    /\ SumBalances # total_supply

\* C8: in every reachable state total_supply() is the sum of balance_of(a)
\* over all accounts a.
C8_TotalSupplyIsSum == total_supply = SumBalances

\* C9: a successful transer(to, v) invoked by c emits exactly one Transfer
\* event, {from: c, to: to, value: v}; one refused with InsufficientBallance
\* emits none.
C9_TransferEmitsOne ==
    [][ last'.op = "transer"
        => /\ (last'.result = "Ok")
              => events' = << Transfer(last'.caller, last'.account, last'.value) >>
           /\ (last'.result = "InsufficientBallance") => events' = << >> ]_vars

\* C9 witness: a successful transer of a positive value to another account,
\* with its one event.
C9_Witness ==
    /\ last.op = "transer"
    /\ last.result = "Ok"
    /\ last.value > 0
    /\ last.caller # last.account
    /\ Len(events) = 1

\* C10 as stated: transer_from, burn and issue emit no event, so a call emits
\* one event if it is a successful transer and none otherwise.
C10_OnlyTransferEmits ==
    [][ /\ last'.op \in {"transer_from", "burn", "issue"} => events' = << >>
        /\ Len(events') = (IF last'.op = "transer" /\ last'.result = "Ok" THEN 1 ELSE 0) ]_vars

\* C10 amended: burn and issue emit no event and neither does a transer_from
\* that fails; a successful transer_from(f, v) invoked by c emits exactly one
\* Transfer event {from: f, to: c, value: v}; so a call emits one event if it
\* is a successful transer or transer_from and none otherwise.
C10_TransfersEmit ==
    [][ /\ last'.op \in {"burn", "issue"} => events' = << >>
        /\ (last'.op = "transer_from" /\ last'.result = "Ok")
           => events' = << Transfer(last'.account, last'.caller, last'.value) >>
        /\ Len(events') = (IF last'.op \in {"transer", "transer_from"} /\ last'.result = "Ok"
                           THEN 1 ELSE 0) ]_vars

\* C10 witness: a successful transer_from, with the event it emitted.
C10_Witness ==
    /\ last.op = "transer_from"
    /\ last.result = "Ok"
    /\ last.caller # last.account
    /\ events = << Transfer(last.account, last.caller, last.value) >>

\* C11: a transer or transer_from that does not complete has written nothing:
\* every condition that can make it fail is evaluated before the first write
\* to balances, so no call ends with the sender debited and the receiver not
\* credited.
C11_FailsBeforeWriting ==
    [][ (last'.op \in {"transer", "transer_from"} /\ last'.result # "Ok")
        => balances' = balances ]_vars

\* C12: a successful transer or transer_from leaves the sum of the sender's
\* and the receiver's balances, and the sum of all balances, as they were.
C12_TransferConservesValue ==
    [][ LET from == IF last'.op = "transer" THEN last'.caller ELSE last'.account
            to == IF last'.op = "transer" THEN last'.account ELSE last'.caller
        IN  (last'.op \in {"transer", "transer_from"} /\ last'.result = "Ok")
            => /\ SumOver(balances', {from, to}) = SumOver(balances, {from, to})
               /\ SumBalances' = SumBalances ]_vars

\* C13: in every reachable state every stored balance is >= 0.
C13_BalancesNonNegative == \A a \in DOMAIN balances : balances[a] >= 0

\* C13 witness: a burn of a positive value left its caller with a stored
\* balance of 0.
C13_Witness ==
    /\ last.op = "burn"
    /\ last.value > 0
    /\ last.caller \in DOMAIN balances
    /\ balances[last.caller] = 0

\* C15: a transer or transer_from whose sender and receiver are the same
\* account c, with v <= balance_of(c), succeeds and leaves every balance as
\* it was.
C15_SelfTransferNoOp ==
    [][ (/\ last'.op \in {"transer", "transer_from"}
         /\ last'.caller = last'.account
         /\ last'.value <= balance_of(last'.caller))
        => /\ last'.result = "Ok"
           /\ BalancesUnchangedExcept({}) ]_vars

\* C15 witness: an account that transferred a positive value to itself and
\* still holds tokens.
C15_Witness ==
    /\ last.op \in {"transer", "transer_from"}
    /\ last.caller = last.account
    /\ last.result = "Ok"
    /\ last.value > 0
    /\ balance_of(last.caller) >= last.value

\* C16: no operation writes the allowance map: in every reachable state it is
\* empty and allowance(o, sp) = 0 for every pair.
C16_AllowanceEmpty ==
    /\ allowance = EmptyMap
    /\ \A o \in AccountId, sp \in AccountId : allowance_of(o, sp) = 0

\* C16 witness: a transer_from by another account moved a positive value and
\* the allowance map is still empty.
C16_Witness ==
    /\ last.op = "transer_from"
    /\ last.result = "Ok"
    /\ last.value > 0
    /\ last.caller # last.account
    /\ DOMAIN allowance = {}

\* C18: a credit never wraps: after an issue(to, v), and after a successful
\* transer or transer_from, the credited account's balance is not below its
\* balance before the call.
C18_CreditNeverWraps ==
    [][ LET credited == IF last'.op = "transer_from" THEN last'.caller ELSE last'.account
        IN  (last'.op \in {"issue", "transer", "transer_from"} /\ last'.result = "Ok")
            => balance_in(self', credited) >= balance_of(credited) ]_vars

\* In every state each query has an answer: the stored value, or 0 for an
\* absent key.
C14_QueriesTotal ==
    /\ \A a \in AccountId :
          query_balance_of(self, a).result
             = (IF a \in DOMAIN balances THEN balances[a] ELSE 0)
    /\ \A o \in AccountId, sp \in AccountId :
          query_allowance(self, o, sp).result
             = (IF <<o, sp>> \in DOMAIN allowance THEN allowance[<<o, sp>>] ELSE 0)
    /\ query_total_supply(self).result = total_supply

\* A step that is a query returns that answer and writes nothing.
C14_QueriesFrame ==
    (last'.op \in {"total_supply", "balance_of", "allowance"})
    => /\ last'.result = "Value"
       /\ balances' = balances
       /\ allowance' = allowance
       /\ total_supply' = total_supply
       /\ last'.op = "balance_of"
          => last'.returned = (IF last'.args[1] \in DOMAIN balances
                               THEN balances[last'.args[1]] ELSE 0)
       /\ last'.op = "allowance"
          => last'.returned = (IF last'.args \in DOMAIN allowance
                               THEN allowance[last'.args] ELSE 0)

\* C14: the queries are total and side-effect-free: in every reachable state
\* balance_of(a) and allowance(o, sp) return the stored value when the key is
\* present and 0 when it is absent, never an error, and they and
\* total_supply() leave balances, allowances and total_supply as they were.
C14_QueriesPure == []C14_QueriesTotal /\ [][C14_QueriesFrame]_vars

\* C14 witness: balance_of answered 0 for an account that has no entry while
\* another account holds tokens.
C14_Witness ==
    /\ last.op = "balance_of"
    /\ last.args[1] \notin DOMAIN balances
    /\ last.returned = 0
    /\ \E a \in DOMAIN balances : balances[a] > 0

\* C17: in every state reached from new(s) by transer, transer_from and burn
\* calls only, the sum of all balances is <= s = total_supply, so every
\* balance is <= total_supply and no receiver credit to_balance + value of a
\* transer or transer_from can overflow the Balance width: no call panics
\* and no credit wraps.
C17_NoIssueNoOverflow ==
    /\ SumBalances <= total_supply
    /\ \A a \in AccountId : balance_of(a) <= total_supply
    /\ last.result # "Panic"
    /\ \A from \in AccountId, to \in AccountId, value \in Balance :
          balance_of(from) >= value
          => LET r == transfer_helper(self, from, to, value) IN
             /\ r.result = "Ok"
             /\ balance_in(r.self, to)
                   = (IF from = to THEN balance_of(to) ELSE balance_of(to) + value)

\* C17 witness: without any issue, the whole largest supply has been moved
\* to an account other than the one that paid it.
C17_Witness ==
    /\ last.op \in {"transer", "transer_from"}
    /\ last.result = "Ok"
    /\ last.caller # last.account
    /\ last.value = BalanceMax
    /\ total_supply = BalanceMax
    /\ \E a \in AccountId : balance_of(a) = BalanceMax

====
